---- MODULE Spec2Model ----
(***************************************************************************)
(* AdArbitrage AI: the App component (src/unnamed/part_000), the Gemini    *)
(* service analyzeArbitrageImages (src/components/HistoryList.tsx, second  *)
(* half) and the Dashboard (src/components/Dashboard.tsx), as a state      *)
(* machine.  React state is the VARIABLES; every event handler is one      *)
(* action, and an async handler is split at its await.                     *)
(*                                                                         *)
(* JavaScript numbers are binary floating point: a number is a rational    *)
(* n/d whose numerator fits a mantissa of Precision bits (53 in a browser) *)
(* and every +, - , / and * rounds its exact outcome to the nearest such   *)
(* number, ties to even.  The exponent range of a double is never reached  *)
(* by money amounts and is left unbounded.  Beside the numbers there are   *)
(* the non-numbers the handlers can meet: NaN, undefined (an absent        *)
(* field) and null.  Money amounts are drawn in half units so that the     *)
(* -0.5 threshold of the status rule separates real cases.                 *)
(***************************************************************************)
EXTENDS Integers, Sequences, FiniteSets, TLC

VARIABLES appState, propellerFile, kadamFile, result, errorMsg, history,
          storage, pending, nextId, imp, alertMsg, resultRef, nImports,
          hiddenCountries, download

vars == <<appState, propellerFile, kadamFile, result, errorMsg, history,
          storage, pending, nextId, imp, alertMsg, resultRef, nImports,
          hiddenCountries, download>>

----------------------------------------------------------------------------
(* Bounds of the model *)

\* longest details list of a base result or an imported report in MergeSpec
MaxDetails == 2
\* number of inference calls started in one behaviour (ids 1..MaxAnalyses)
MaxAnalyses == 2
\* number of import handlers run in one behaviour
MaxImports == 1
\* bits of the mantissa of a number
Precision == 5

----------------------------------------------------------------------------
(* JavaScript numbers *)

Abs(x) == IF x < 0 THEN -x ELSE x

RECURSIVE Gcd(_, _)
Gcd(a, b) == IF b = 0 THEN a ELSE Gcd(b, a % b)

\* the rational n/d in lowest terms, d > 0
Rat(n, d) ==
    LET s == IF d < 0 THEN -1 ELSE 1
        g == Gcd(Abs(n), Abs(d))
    IN  [t |-> "num", n |-> (s * n) \div g, d |-> (s * d) \div g]

Num(n) == [t |-> "num", n |-> n, d |-> 1]
NaN == [t |-> "nan", n |-> 0, d |-> 1]
Undef == [t |-> "undef", n |-> 0, d |-> 1]
Zero == Num(0)

\* JSON null, which a parsed file or response may hold where a number belongs
Null == [t |-> "null", n |-> 0, d |-> 1]

IsNum(a) == a.t = "num"

\* ToNumber: null is 0, undefined is NaN
ToNum(a) == IF a.t = "null" THEN Zero ELSE IF a.t = "undef" THEN NaN ELSE a

Pow2(k) == 2 ^ k

\* a/d (a, d > 0) scaled by a power of two into [2^(Precision-1), 2^Precision):
\* the scaled fraction, and the power taken out (up) or put in (down)
RECURSIVE Normalize(_, _, _, _)
Normalize(a, d, up, down) ==
    IF a >= d * Pow2(Precision) THEN Normalize(a, 2 * d, up + 1, down)
    ELSE IF a < d * Pow2(Precision - 1) THEN Normalize(2 * a, d, up, down + 1)
    ELSE [a |-> a, d |-> d, up |-> up, down |-> down]

\* the number nearest to n/d (d > 0), ties to the even mantissa
RoundTo(n, d) ==
    IF n = 0 THEN Zero
    ELSE LET nm == Normalize(Abs(n), d, 0, 0)
             q == nm.a \div nm.d
             r == nm.a % nm.d
             m == IF 2 * r > nm.d \/ (2 * r = nm.d /\ q % 2 = 1) THEN q + 1 ELSE q
         IN  Rat((IF n < 0 THEN -m ELSE m) * Pow2(nm.up), Pow2(nm.down))

\* a + b: undefined or NaN on either side gives NaN
JsAdd(a, b) ==
    LET x == ToNum(a)
        y == ToNum(b)
    IN  IF IsNum(x) /\ IsNum(y) THEN RoundTo(x.n * y.d + y.n * x.d, x.d * y.d) ELSE NaN

\* a - b
JsSub(a, b) ==
    LET x == ToNum(a)
        y == ToNum(b)
    IN  IF IsNum(x) /\ IsNum(y) THEN RoundTo(x.n * y.d - y.n * x.d, x.d * y.d) ELSE NaN

\* (a / b) * 100, used only behind a guard b > 0: the quotient rounded, then
\* the product
JsPct(a, b) ==
    LET x == ToNum(a)
        y == ToNum(b)
    IN  IF IsNum(x) /\ IsNum(y) /\ y.n # 0
        THEN LET q == IF y.n > 0 THEN RoundTo(x.n * y.d, x.d * y.n)
                      ELSE RoundTo(-(x.n * y.d), x.d * (-y.n))
             IN  RoundTo(q.n * 100, q.d)
        ELSE NaN

\* a > b and a < b: every comparison with NaN or undefined is false
JsGt(a, b) ==
    LET x == ToNum(a)
        y == ToNum(b)
    IN  IsNum(x) /\ IsNum(y) /\ x.n * y.d > y.n * x.d

JsLt(a, b) ==
    LET x == ToNum(a)
        y == ToNum(b)
    IN  IsNum(x) /\ IsNum(y) /\ x.n * y.d < y.n * x.d

\* x || 0: undefined, null, NaN and 0 are falsy
OrZero(a) == IF IsNum(a) /\ a.n # 0 THEN a ELSE Zero

----------------------------------------------------------------------------
(* CountryData, the summary and AnalysisResult-shaped objects *)

\* An AnalysisResult-shaped object as JSON.parse delivers it, nothing checked:
\*   dk          "seq" (details is an array), "notseq" (details is a truthy
\*               non-array: a string, a number, an object), "absent"
\*   hasSummary, hasBad, hasRec   whether the field is there
\* Absent fields hold a fixed filler that no handler reads.
MkObj(dk, details, hasSummary, summary, hasBad, bad, hasRec, rec) ==
    [dk |-> dk, details |-> details, hasSummary |-> hasSummary, summary |-> summary,
     hasBad |-> hasBad, badCountries |-> bad, hasRec |-> hasRec,
     recommendations |-> rec]

ZeroSummary == [totalCost |-> Zero, totalRevenue |-> Zero, netProfit |-> Zero,
                totalRoi |-> Zero]

\* the object {}
EmptyObj == MkObj("absent", <<>>, FALSE, ZeroSummary, FALSE, <<>>, FALSE, <<>>)

\* null: useState<AnalysisResult | null>(null)
NULL == [EmptyObj EXCEPT !.dk = "null"]

IsNull(x) == x.dk = "null"

LossThreshold == Rat(-1, 2)

\* profit, roi and status of a record, recomputed from its cost and revenue
Rederive(r) ==
    LET profit == JsSub(r.revenue, r.cost)
    IN  [r EXCEPT
           !.profit = profit,
           !.roi = IF JsGt(r.cost, Zero) THEN JsPct(profit, r.cost) ELSE Zero,
           !.status = IF JsGt(profit, Zero) THEN "PROFITABLE"
                      ELSE IF JsLt(profit, LossThreshold) THEN "LOSS"
                      ELSE "BREAK_EVEN"]

\* a slip the merge could make: the sums taken, the derived fields left as
\* the base had them
MergeIntoStaleDerived(existing, newItem) ==
    [existing EXCEPT !.cost = JsAdd(existing.cost, newItem.cost),
                     !.revenue = JsAdd(existing.revenue, newItem.revenue)]

\* existing.cost += newItem.cost; existing.revenue += newItem.revenue; then
\* profit, roi and status from the sums
MergeInto(existing, newItem) ==
    Rederive([existing EXCEPT !.cost = JsAdd(existing.cost, newItem.cost),
                              !.revenue = JsAdd(existing.revenue, newItem.revenue)])

\* Map<string, CountryData> in insertion order: a sequence with distinct keys
MapHas(m, key) == \E i \in 1..Len(m) : m[i].country = key

MapIndex(m, key) == CHOOSE i \in 1..Len(m) : m[i].country = key

\* a slip the map could make: a key set again moves to the end
MapSetMovesToEnd(m, key, rec) ==
    Append(SelectSeq(m, LAMBDA r : r.country # key), rec)

MapSet(m, key, rec) ==
    IF MapHas(m, key) THEN [m EXCEPT ![MapIndex(m, key)] = rec] ELSE Append(m, rec)

\* result.details.forEach(item => mergedDetailsMap.set(item.country, {...item}))
RECURSIVE AddCurrent(_, _)
AddCurrent(m, details) ==
    IF details = <<>> THEN m
    ELSE AddCurrent(MapSet(m, Head(details).country, Head(details)), Tail(details))

\* importedData.details.forEach(newItem => ...)
RECURSIVE MergeImported(_, _)
MergeImported(m, details) ==
    IF details = <<>> THEN m
    ELSE LET newItem == Head(details)
             next == IF MapHas(m, newItem.country)
                     THEN MapSet(m, newItem.country,
                                 MergeInto(m[MapIndex(m, newItem.country)], newItem))
                     ELSE MapSet(m, newItem.country, newItem)
         IN  MergeImported(next, Tail(details))

\* d.reduce((s, i) => s + i.cost, 0) and the same over revenue
RECURSIVE SumCost(_)
SumCost(d) == IF d = <<>> THEN Zero ELSE JsAdd(SumCost(SubSeq(d, 1, Len(d) - 1)), d[Len(d)].cost)

RECURSIVE SumRevenue(_)
SumRevenue(d) ==
    IF d = <<>> THEN Zero
    ELSE JsAdd(SumRevenue(SubSeq(d, 1, Len(d) - 1)), d[Len(d)].revenue)

\* d.reduce((acc, curr) => acc + (curr.cost || 0), 0) and the same over revenue
RECURSIVE SumCostOrZero(_)
SumCostOrZero(d) ==
    IF d = <<>> THEN Zero
    ELSE JsAdd(SumCostOrZero(SubSeq(d, 1, Len(d) - 1)), OrZero(d[Len(d)].cost))

RECURSIVE SumRevenueOrZero(_)
SumRevenueOrZero(d) ==
    IF d = <<>> THEN Zero
    ELSE JsAdd(SumRevenueOrZero(SubSeq(d, 1, Len(d) - 1)), OrZero(d[Len(d)].revenue))

\* { totalCost, totalRevenue, netProfit, totalRoi } from the two totals
SummaryOf(tc, tr) ==
    LET np == JsSub(tr, tc)
    IN  [totalCost |-> tc, totalRevenue |-> tr, netProfit |-> np,
         totalRoi |-> IF JsGt(tc, Zero) THEN JsPct(np, tc) ELSE Zero]

\* a slip the merge could make: the base's summary carried over
MergedSummaryFromBase(base, mergedDetails) == base.summary

\* the summary of a merged result, lines 178-181

MergedSummary(base, mergedDetails) ==
    SummaryOf(SumCost(mergedDetails), SumRevenue(mergedDetails))

\* Array.from(new Set([...a, ...b]))
RECURSIVE Dedupe(_, _)
Dedupe(seen, s) ==
    IF s = <<>> THEN seen
    ELSE Dedupe(IF \E i \in 1..Len(seen) : seen[i] = Head(s) THEN seen
                ELSE Append(seen, Head(s)), Tail(s))

\* a slip the union could make: the two lists joined, nothing removed
UnionListJoined(a, b) == a \o b

UnionList(a, b) == Dedupe(<<>>, a \o b)

----------------------------------------------------------------------------
(* handleImportFile, as a function of the closure's result and the file *)

\* A picked file: its extension, whether the text holds the marker
\* const DATA = {...}; (read for .html only), whether the JSON text parses,
\* and what it parses to.
MkFile(ext, marker, valid, data) ==
    [ext |-> ext, marker |-> marker, valid |-> valid, data |-> data]

\* lines 119-128: "throw" when JSON.parse throws, "none" when importedData
\* stays null, "data" otherwise
ParseFile(file) ==
    IF file.ext = "json" THEN (IF file.valid THEN "data" ELSE "throw")
    ELSE IF file.ext = "html"
         THEN (IF ~file.marker THEN "none"
               ELSE IF file.valid THEN "data" ELSE "throw")
    ELSE "none"

\* a slip the defaults could make: a missing summary filled with zeros
WithDefaultsZeroSummary(d) ==
    [d EXCEPT !.hasBad = TRUE, !.hasRec = TRUE, !.hasSummary = TRUE,
              !.summary = IF d.hasSummary THEN d.summary ELSE ZeroSummary]

\* lines 135-154: the optional lists defaulted, the summary recomputed when
\* it is missing
WithDefaults(d) ==
    [d EXCEPT !.hasBad = TRUE, !.hasRec = TRUE, !.hasSummary = TRUE,
              !.summary = IF d.hasSummary THEN d.summary
                          ELSE SummaryOf(SumCostOrZero(d.details),
                                         SumRevenueOrZero(d.details))]

\* lines 158-191: mergedResult
MergedResult(base, imported) ==
    LET mergedDetails == MergeImported(AddCurrent(<<>>, base.details), imported.details)
    IN  MkObj("seq", mergedDetails, TRUE, MergedSummary(base, mergedDetails),
              TRUE, UnionList(base.badCountries, imported.badCountries),
              TRUE, UnionList(base.recommendations, imported.recommendations))

\* whether the merge branch throws a TypeError before it reaches setResult:
\* result.details.forEach, importedData.details.forEach, the two spreads
MergeThrows(base, imported) ==
    \/ base.dk # "seq"
    \/ imported.dk # "seq"
    \/ ~base.hasBad
    \/ ~base.hasRec

MsgInvalid == "Invalid file format. Could not find analysis data."
MsgCorrupted == "Failed to load report. File might be corrupted."
MsgMerged == "Report merged successfully!"

\* The handler after the await, from line 119 to the end: what it alerts
\* ("" for no alert), and the value it passes to setResult, if any.
ImportOutcome(base, file) ==
    LET parsed == ParseFile(file)
        none == [alert |-> "", set |-> FALSE, value |-> NULL, toResults |-> FALSE]
        failed == [none EXCEPT !.alert = MsgCorrupted]
        invalid == [none EXCEPT !.alert = MsgInvalid]
    IN  IF parsed = "throw" THEN failed
        ELSE IF parsed = "none" \/ file.data.dk = "absent" THEN invalid
        ELSE IF ~file.data.hasSummary /\ file.data.dk # "seq" THEN failed
        ELSE LET imported == WithDefaults(file.data)
             IN  IF ~IsNull(base)
                 THEN IF MergeThrows(base, imported) THEN failed
                      ELSE [alert |-> MsgMerged, set |-> TRUE,
                            value |-> MergedResult(base, imported), toResults |-> FALSE]
                 ELSE [alert |-> "", set |-> TRUE, value |-> imported,
                       toResults |-> TRUE]

----------------------------------------------------------------------------
(* analyzeArbitrageImages *)

MsgConnection == "Connection failed. The images might be too large or the analysis took too long. Please try again with clearer or cropped screenshots."
MsgFailed == "Failed to analyze images. Please ensure screenshots are clear and try again."

\* What the call to generateContent meets, by kind:
\*   "xhr"      generateContent rejects with an xhr error / code 6
\*   "reject"   generateContent rejects with anything else
\*   "notext"   response.text is empty or undefined
\*   "nospan"   the text holds no '{' or no '}'
\*   "badjson"  the span from the first '{' to the last '}' is not JSON
\*   "json"     the span parses, to data
MkResponse(kind, data) == [kind |-> kind, data |-> data]

\* The promise's outcome, for a build that has its API_KEY: fulfilled with
\* data, or rejected with an Error.
AnalyzeArbitrageImages(resp) ==
    IF resp.kind = "xhr" THEN [ok |-> FALSE, data |-> NULL, message |-> MsgConnection]
    ELSE IF resp.kind = "reject" THEN [ok |-> FALSE, data |-> NULL, message |-> MsgFailed]
    ELSE IF resp.kind = "notext" THEN [ok |-> TRUE, data |-> EmptyObj, message |-> ""]
    ELSE IF resp.kind \in {"nospan", "badjson"}
         THEN [ok |-> FALSE, data |-> NULL, message |-> MsgFailed]
    ELSE [ok |-> TRUE, data |-> resp.data, message |-> ""]

----------------------------------------------------------------------------
(* History and its persisted copy *)

\* a HistoryItem; the timestamp plays no part in any handler of App
HistoryItem(id, data) == [id |-> id, result |-> data]

\* JSON.stringify of a number: NaN becomes null, which reads back as null
JsonNumber(a) == IF a.t = "nan" THEN Null ELSE a

JsonRecord(r) ==
    [r EXCEPT !.cost = JsonNumber(r.cost), !.revenue = JsonNumber(r.revenue),
              !.profit = JsonNumber(r.profit), !.roi = JsonNumber(r.roi)]

JsonSummary(sm) ==
    [totalCost |-> JsonNumber(sm.totalCost), totalRevenue |-> JsonNumber(sm.totalRevenue),
     netProfit |-> JsonNumber(sm.netProfit), totalRoi |-> JsonNumber(sm.totalRoi)]

\* JSON.parse(JSON.stringify(x)) of a result object
JsonObj(x) ==
    [x EXCEPT !.details = [i \in 1..Len(x.details) |-> JsonRecord(x.details[i])],
              !.summary = JsonSummary(x.summary)]

\* localStorage.setItem('ad_arbitrage_history', JSON.stringify(h)), as the
\* array that JSON.parse gives back
Persist(h) == [i \in 1..Len(h) |-> HistoryItem(h[i].id, JsonObj(h[i].result))]

\* history.filter(item => item.id !== id)
RECURSIVE FilterOut(_, _)
FilterOut(h, id) ==
    IF h = <<>> THEN <<>>
    ELSE IF Head(h).id = id THEN FilterOut(Tail(h), id)
    ELSE <<Head(h)>> \o FilterOut(Tail(h), id)

----------------------------------------------------------------------------
(* Inputs *)

Countries == {"India", "Brazil"}

\* a record as the prompt asks for it: derived fields consistent
Rec(c, cost, revenue) ==
    Rederive([country |-> c, cost |-> cost, revenue |-> revenue, profit |-> Zero,
              roi |-> Zero, status |-> "BREAK_EVEN"])

\* a result with every field there and the summary that of its details
Report(details, bad, rec) ==
    MkObj("seq", details, TRUE, SummaryOf(SumCost(details), SumRevenue(details)),
          TRUE, bad, TRUE, rec)

\* India cost 1 revenue 1.5, Brazil cost 1 revenue 0
ReportA ==
    Report(<<Rec("India", Num(1), Rat(3, 2)), Rec("Brazil", Num(1), Zero)>>,
           <<"Brazil">>, <<"Block Brazil">>)

\* a report whose summary is not the sum of its details and whose record has
\* a profit, roi and status that are not those of its cost and revenue
ReportSkewed ==
    [Report(<<[Rec("India", Num(1), Zero) EXCEPT !.profit = Num(1),
                                                 !.roi = Num(100),
                                                 !.status = "PROFITABLE"]>>,
            <<>>, <<>>)
       EXCEPT !.summary = ZeroSummary]

\* { "summary": {...}, "details": "n/a" }
ReportNoSeq == MkObj("notseq", <<>>, TRUE, ZeroSummary, FALSE, <<>>, FALSE, <<>>)

\* { "summary": {...} }
ReportNoDetails == MkObj("absent", <<>>, TRUE, ZeroSummary, TRUE, <<>>, TRUE, <<>>)

\* The sample inputs of Spec: what generateContent may answer, and the files
\* the user may pick.
Responses ==
    {MkResponse("json", ReportA), MkResponse("notext", EmptyObj), MkResponse("nospan", EmptyObj),
     MkResponse("badjson", EmptyObj), MkResponse("xhr", EmptyObj),
     MkResponse("reject", EmptyObj)}

Files ==
    {MkFile("json", FALSE, TRUE, ReportSkewed),
     MkFile("json", FALSE, TRUE, ReportNoSeq),
     MkFile("json", FALSE, TRUE, ReportNoDetails),
     MkFile("json", FALSE, FALSE, EmptyObj),
     MkFile("html", FALSE, TRUE, ReportSkewed)}

----------------------------------------------------------------------------
(* The App component *)

\* no file picked: the import handler's closure before its first call
NoFile == MkFile("txt", FALSE, FALSE, EmptyObj)

IdleImport == [pc |-> "idle", base |-> NULL, ref |-> 0, file |-> NoFile]

\* the import handler's frame across a step of another handler
Frame(f) == IF f.pc = "reading" THEN f ELSE IdleImport

\* State of a freshly mounted App over the given localStorage content.
\*   pending    the inference calls outstanding, each with the history array
\*              its handleAnalyze closure holds
\*   imp        the import handler's frame: at its await ("reading"), or
\*              returned in the step just taken ("done", the closure's
\*              result and file still shown), or "idle"
\*   alertMsg   the text of the alert() raised by the step just taken ("": none)
\*   resultRef  the id of the history item whose result is the very object
\*              held in result (0: none); setResult(item.result) and
\*              saveToHistory(analysisData) share the object, not a copy
\*   hiddenCountries  the Dashboard's own state: the countries hidden, in
\*              the order they were hidden
\*   download   the file the last export handed to the browser (NoFile: none)
Mounted(stored) ==
    /\ appState = "UPLOAD"
    /\ propellerFile = FALSE
    /\ kadamFile = FALSE
    /\ result = NULL
    /\ errorMsg = ""
    /\ history = stored
    /\ storage = stored
    /\ pending = {}
    /\ imp = IdleImport
    /\ alertMsg = ""
    /\ resultRef = 0
    /\ hiddenCountries = <<>>
    /\ download = NoFile

\* the Dashboard is rendered when the state is RESULTS and there is a result
DashboardShown(st, r) == st = "RESULTS" /\ ~IsNull(r)

\* The Dashboard's hiddenCountries across a step of the App: useState keeps
\* it while the Dashboard stays mounted, and a Dashboard mounted anew starts
\* with the empty list.
KeepHidden ==
    hiddenCountries' = IF DashboardShown(appState, result)
                          /\ DashboardShown(appState', result')
                       THEN hiddenCountries
                       ELSE <<>>

Init ==
    /\ Mounted(<<>>)
    /\ nextId = 1
    /\ nImports = 0

\* ImageUploader onFileSelect, of the two uploaders of the UPLOAD view
SelectPropeller ==
    /\ appState = "UPLOAD"
    /\ propellerFile' = TRUE
    /\ alertMsg' = ""
    /\ imp' = Frame(imp)
    /\ UNCHANGED <<appState, kadamFile, result, errorMsg, history, storage, pending,
                   nextId, resultRef, nImports, download>>
    /\ KeepHidden

SelectKadam ==
    /\ appState = "UPLOAD"
    /\ kadamFile' = TRUE
    /\ alertMsg' = ""
    /\ imp' = Frame(imp)
    /\ UNCHANGED <<appState, propellerFile, result, errorMsg, history, storage, pending,
                   nextId, resultRef, nImports, download>>
    /\ KeepHidden

\* handleAnalyze up to its await; the button is rendered in the UPLOAD view
\* and disabled unless both files are there
AnalyzeStart ==
    /\ appState = "UPLOAD"
    /\ propellerFile /\ kadamFile
    /\ nextId <= MaxAnalyses
    /\ appState' = "ANALYZING"
    /\ errorMsg' = ""
    /\ pending' = pending \cup {[id |-> nextId, history |-> history]}
    /\ nextId' = nextId + 1
    /\ alertMsg' = ""
    /\ imp' = Frame(imp)
    /\ UNCHANGED <<propellerFile, kadamFile, result, history, storage, resultRef, nImports, download>>
    /\ KeepHidden

\* saveToHistory(data) of the closure that holds the history array h
SaveToHistory(id, data, h) == <<HistoryItem(id, data)>> \o h

\* handleAnalyze after its await, the promise fulfilled
AnalyzeSucceeds(p, resp) ==
    LET r == AnalyzeArbitrageImages(resp)
        updatedHistory == SaveToHistory(p.id, r.data, p.history)
    IN  /\ p \in pending
        /\ r.ok
        /\ result' = r.data
        /\ history' = updatedHistory
        /\ storage' = Persist(updatedHistory)
        /\ appState' = "RESULTS"
        /\ resultRef' = p.id
        /\ pending' = pending \ {p}
        /\ alertMsg' = ""
        /\ imp' = Frame(imp)
        /\ UNCHANGED <<propellerFile, kadamFile, errorMsg, nextId, nImports, download>>
        /\ KeepHidden

\* a slip the catch block could make: the result cleared on failure
AnalyzeFailsClearsResult(p, resp) ==
    LET r == AnalyzeArbitrageImages(resp)
    IN  /\ p \in pending
        /\ ~r.ok
        /\ errorMsg' = r.message
        /\ appState' = "ERROR"
        /\ result' = NULL
        /\ resultRef' = 0
        /\ pending' = pending \ {p}
        /\ alertMsg' = ""
        /\ imp' = Frame(imp)
        /\ UNCHANGED <<propellerFile, kadamFile, history, storage, nextId, nImports, download>>
        /\ KeepHidden

\* the catch block of handleAnalyze
AnalyzeFails(p, resp) ==
    LET r == AnalyzeArbitrageImages(resp)
    IN  /\ p \in pending
        /\ ~r.ok
        /\ errorMsg' = r.message
        /\ appState' = "ERROR"
        /\ pending' = pending \ {p}
        /\ alertMsg' = ""
        /\ imp' = Frame(imp)
        /\ UNCHANGED <<propellerFile, kadamFile, result, history, storage, nextId, resultRef, nImports, download>>
        /\ KeepHidden

\* a slip the ERROR view could make: no "Try Again", resetApp left to the
\* Dashboard's "New"
ResetAppOfDashboard ==
    /\ appState = "RESULTS" /\ ~IsNull(result)
    /\ appState' = "UPLOAD"
    /\ propellerFile' = FALSE
    /\ kadamFile' = FALSE
    /\ result' = NULL
    /\ errorMsg' = ""
    /\ resultRef' = 0
    /\ alertMsg' = ""
    /\ imp' = Frame(imp)
    /\ UNCHANGED <<history, storage, pending, nextId, nImports, download>>
    /\ KeepHidden

\* resetApp: "New" of the Dashboard, "Try Again" of the ERROR view
ResetApp ==
    /\ \/ appState = "RESULTS" /\ ~IsNull(result)
       \/ appState = "ERROR"
    /\ appState' = "UPLOAD"
    /\ propellerFile' = FALSE
    /\ kadamFile' = FALSE
    /\ result' = NULL
    /\ errorMsg' = ""
    /\ resultRef' = 0
    /\ alertMsg' = ""
    /\ imp' = Frame(imp)
    /\ UNCHANGED <<history, storage, pending, nextId, nImports, download>>
    /\ KeepHidden

\* the logo's onClick
LogoClick ==
    /\ appState' = "UPLOAD"
    /\ alertMsg' = ""
    /\ imp' = Frame(imp)
    /\ UNCHANGED <<propellerFile, kadamFile, result, errorMsg, history, storage, pending,
                   nextId, resultRef, nImports, download>>
    /\ KeepHidden

\* the History button's onClick
HistoryClick ==
    /\ appState' = "HISTORY"
    /\ alertMsg' = ""
    /\ imp' = Frame(imp)
    /\ UNCHANGED <<propellerFile, kadamFile, result, errorMsg, history, storage, pending,
                   nextId, resultRef, nImports, download>>
    /\ KeepHidden

\* HistoryList onClose
HistoryClose ==
    /\ appState = "HISTORY"
    /\ appState' = "UPLOAD"
    /\ alertMsg' = ""
    /\ imp' = Frame(imp)
    /\ UNCHANGED <<propellerFile, kadamFile, result, errorMsg, history, storage, pending,
                   nextId, resultRef, nImports, download>>
    /\ KeepHidden

\* loadHistoryItem, from a card of the HISTORY view
LoadHistoryItem(i) ==
    /\ appState = "HISTORY"
    /\ i \in 1..Len(history)
    /\ result' = history[i].result
    /\ resultRef' = history[i].id
    /\ appState' = "RESULTS"
    /\ alertMsg' = ""
    /\ imp' = Frame(imp)
    /\ UNCHANGED <<propellerFile, kadamFile, errorMsg, history, storage, pending,
                   nextId, nImports, download>>
    /\ KeepHidden

\* deleteHistoryItem, from a card of the HISTORY view
DeleteHistoryItem(i) ==
    /\ appState = "HISTORY"
    /\ i \in 1..Len(history)
    /\ LET updatedHistory == FilterOut(history, history[i].id)
       IN  /\ history' = updatedHistory
           /\ storage' = Persist(updatedHistory)
    /\ alertMsg' = ""
    /\ imp' = Frame(imp)
    /\ UNCHANGED <<appState, propellerFile, kadamFile, result, errorMsg, pending,
                   nextId, resultRef, nImports, download>>
    /\ KeepHidden


\* handleImportFile up to its await of file.text(): the closure holds the
\* result of the render in which the file was picked
ImportStart(file) ==
    /\ imp.pc # "reading"
    /\ nImports < MaxImports
    /\ imp' = [pc |-> "reading", base |-> result, ref |-> resultRef, file |-> file]
    /\ nImports' = nImports + 1
    /\ alertMsg' = ""
    /\ UNCHANGED <<appState, propellerFile, kadamFile, result, errorMsg, history,
                   storage, pending, nextId, resultRef, download>>
    /\ KeepHidden

\* a slip the merge could make: the base's records put into the map without
\* the copy, so that the sums are written into the base's own records
BaseAfterMergeInPlace(base, imported) ==
    [base EXCEPT !.details = MergeImported(base.details, imported.details)]

\* What the merge branch leaves in the object the closure's result points
\* to: line 161 puts copies ({ ...item }) into the map, so lines 167-171
\* write to the copies and the object is as it was.
BaseAfterMerge(base, imported) == base

\* the history array with the object of item id (shared with the closure's
\* result) in the state the handler left it
WriteThrough(h, id, obj) ==
    [i \in 1..Len(h) |-> IF h[i].id = id THEN HistoryItem(id, obj) ELSE h[i]]

\* handleImportFile after its await
ImportFinish ==
    LET out == ImportOutcome(imp.base, imp.file)
        merging == out.set /\ ~out.toResults
    IN  /\ imp.pc = "reading"
        /\ imp' = [imp EXCEPT !.pc = "done"]
        /\ alertMsg' = out.alert
        /\ result' = IF out.set THEN out.value ELSE result
        /\ resultRef' = IF out.set THEN 0 ELSE resultRef
        /\ appState' = IF out.toResults THEN "RESULTS" ELSE appState
        /\ history' = IF merging
                      THEN WriteThrough(history, imp.ref,
                                        BaseAfterMerge(imp.base, WithDefaults(imp.file.data)))
                      ELSE history
        /\ UNCHANGED <<propellerFile, kadamFile, errorMsg, storage, pending, nextId,
                       nImports, download>>
        /\ KeepHidden

\* the page reloaded: every useState starts over and the mount effect reads
\* the history back from localStorage; calls and handlers in flight are gone
Reload ==
    /\ appState' = "UPLOAD"
    /\ propellerFile' = FALSE
    /\ kadamFile' = FALSE
    /\ result' = NULL
    /\ errorMsg' = ""
    /\ history' = storage
    /\ pending' = {}
    /\ imp' = IdleImport
    /\ alertMsg' = ""
    /\ resultRef' = 0
    /\ UNCHANGED <<storage, nextId, nImports, download>>
    /\ KeepHidden

Next ==
    \/ SelectPropeller
    \/ SelectKadam
    \/ AnalyzeStart
    \/ \E p \in pending, resp \in Responses : AnalyzeSucceeds(p, resp)
    \/ \E p \in pending, resp \in Responses : AnalyzeFails(p, resp)
    \/ ResetApp
    \/ LogoClick
    \/ HistoryClick
    \/ HistoryClose
    \/ \E i \in 1..Len(history) : LoadHistoryItem(i)
    \/ \E i \in 1..Len(history) : DeleteHistoryItem(i)
    \/ \E file \in Files : ImportStart(file)
    \/ ImportFinish
    \/ Reload

Spec == Init /\ [][Next]_vars

----------------------------------------------------------------------------
(* The merge as a function: one import onto every base *)

\* amounts of the enumerated records: 0 and 0.5
Amounts == {Zero, Rat(1, 2)}

\* the records of the enumerated reports: India with every cost and revenue,
\* Brazil with cost 0.5 and every revenue, the derived fields consistent; one
\* record whose derived fields are not; one record without cost
Records ==
    {Rec("India", cost, revenue) : cost \in Amounts, revenue \in Amounts}
    \cup {Rec("Brazil", Rat(1, 2), revenue) : revenue \in Amounts}
    \cup {[Rec("India", Rat(1, 2), Zero) EXCEPT !.profit = Num(1), !.roi = Num(100),
                                                !.status = "PROFITABLE"]}
    \cup {Rederive([Rec("Brazil", Zero, Rat(1, 2)) EXCEPT !.cost = Undef])}

RECURSIVE SeqsOf(_, _)
SeqsOf(S, n) ==
    IF n = 0 THEN {<<>>} ELSE {Append(sq, x) : sq \in SeqsOf(S, n - 1), x \in S}

DetailLists == UNION {SeqsOf(Records, n) : n \in 0..MaxDetails}

\* base results: the summary consistent, or the zero summary whatever the
\* details and a country listed twice in badCountries
MergeBases ==
    {Report(d, <<"India">>, <<"Block India">>) : d \in DetailLists}
    \cup {[Report(d, <<"Brazil", "India", "Brazil">>, <<>>)
              EXCEPT !.summary = ZeroSummary] : d \in DetailLists}

\* imported reports: a consistent .json, a .json without summary and lists,
\* an .html with the zero summary
MergeFiles ==
    {MkFile("json", FALSE, TRUE, Report(d, <<"Brazil">>, <<"Block Brazil">>)) :
        d \in DetailLists}
    \cup {MkFile("json", FALSE, TRUE,
                 MkObj("seq", d, FALSE, ZeroSummary, FALSE, <<>>, FALSE, <<>>)) :
            d \in DetailLists}
    \cup {MkFile("html", TRUE, TRUE,
                 [Report(d, <<"India", "Brazil">>, <<"Block India">>)
                    EXCEPT !.summary = ZeroSummary]) : d \in DetailLists}

\* the Dashboard shown over a base result, nothing in flight
InitMerge ==
    /\ appState = "RESULTS"
    /\ propellerFile = TRUE
    /\ kadamFile = TRUE
    /\ result \in MergeBases
    /\ errorMsg = ""
    /\ history = <<>>
    /\ storage = <<>>
    /\ pending = {}
    /\ imp = IdleImport
    /\ alertMsg = ""
    /\ resultRef = 0
    /\ nextId = 1
    /\ nImports = 0
    /\ hiddenCountries = <<>>
    /\ download = NoFile

NextMerge ==
    \/ \E file \in MergeFiles :
         /\ nImports = 0
         /\ Len(result.details) + Len(file.data.details) <= MaxDetails + 1
         /\ ImportStart(file)
    \/ ImportFinish

MergeSpec == InitMerge /\ [][NextMerge]_vars

----------------------------------------------------------------------------
(* Merges in a row: one import onto the outcome of an earlier merge *)

\* amounts of the chained reports: 0.5, and the least amount whose
\* neighbouring numbers are a whole unit apart
ChainAmounts == {Rat(1, 2), Num(Pow2(Precision - 1))}

\* records of the chained reports: derived fields consistent, and one
\* record whose derived fields are not
ChainRecords ==
    {Rec(c, cost, Rat(1, 2)) : c \in Countries, cost \in ChainAmounts}
    \cup {[Rec("India", Rat(1, 2), Rat(1, 2)) EXCEPT !.profit = Num(1), !.roi = Num(100),
                                                    !.status = "PROFITABLE"]}

\* details lists whose countries are pairwise distinct
ChainLists ==
    {d \in UNION {SeqsOf(ChainRecords, n) : n \in 0..2} :
        \A i, j \in 1..Len(d) : i # j => d[i].country # d[j].country}

\* results with unique countries, the summary that of the details
ChainReports == {Report(d, <<>>, <<>>) : d \in ChainLists}

\* the Dashboard shown over the outcome of importing one of the reports onto
\* another, nothing in flight
InitChain ==
    /\ appState = "RESULTS"
    /\ propellerFile = TRUE
    /\ kadamFile = TRUE
    /\ result \in {MergedResult(A, WithDefaults(B)) : A \in ChainReports, B \in ChainReports}
    /\ errorMsg = ""
    /\ history = <<>>
    /\ storage = <<>>
    /\ pending = {}
    /\ imp = IdleImport
    /\ alertMsg = ""
    /\ resultRef = 0
    /\ nextId = 1
    /\ nImports = 0
    /\ hiddenCountries = <<>>
    /\ download = NoFile

NextChain ==
    \/ \E C \in ChainReports :
         nImports = 0 /\ ImportStart(MkFile("json", FALSE, TRUE, C))
    \/ ImportFinish

ChainSpec == InitChain /\ [][NextChain]_vars

----------------------------------------------------------------------------
(* One import onto a result, over three countries *)

SwapCountries == Countries \cup {"Vietnam"}

SwapRecords == {Rec(c, cost, Rat(1, 2)) : c \in SwapCountries, cost \in ChainAmounts}

SwapLists ==
    {d \in UNION {SeqsOf(SwapRecords, n) : n \in 0..2} :
        \A i, j \in 1..Len(d) : i # j => d[i].country # d[j].country}

\* results with unique countries, consistent records and summary
SwapReports == {Report(d, <<>>, <<>>) : d \in SwapLists}

\* the Dashboard shown over one of the results, nothing in flight
InitSwap ==
    /\ appState = "RESULTS"
    /\ propellerFile = TRUE
    /\ kadamFile = TRUE
    /\ result \in SwapReports
    /\ errorMsg = ""
    /\ history = <<>>
    /\ storage = <<>>
    /\ pending = {}
    /\ imp = IdleImport
    /\ alertMsg = ""
    /\ resultRef = 0
    /\ nextId = 1
    /\ nImports = 0
    /\ hiddenCountries = <<>>
    /\ download = NoFile

NextSwap ==
    \/ \E B \in SwapReports :
         nImports = 0 /\ ImportStart(MkFile("json", FALSE, TRUE, B))
    \/ ImportFinish

SwapSpec == InitSwap /\ [][NextSwap]_vars

----------------------------------------------------------------------------
(* One import into the freshly mounted App: the load branch *)

\* records of the loaded files: two as the prompt asks for them, one without
\* cost, one without revenue, one whose country is empty and one whose
\* country is blank
LoadRecords ==
    {Rec(c, Num(1), Rat(3, 2)) : c \in Countries}
    \cup {[Rec("India", Zero, Rat(1, 2)) EXCEPT !.cost = Undef],
          [Rec("Brazil", Rat(1, 2), Zero) EXCEPT !.revenue = Undef],
          Rec("", Num(1), Num(1)),
          Rec(" ", Num(1), Num(1))}

LoadLists == UNION {SeqsOf(LoadRecords, n) : n \in 0..MaxDetails}

\* the files: a .json with every field, a .json with details only, an .html
\* export whose summary is the zero summary, and a .json whose details is no
\* array and that has no summary
LoadFiles ==
    {MkFile("json", FALSE, TRUE, Report(d, <<"Brazil">>, <<"Block Brazil">>)) :
        d \in LoadLists}
    \cup {MkFile("json", FALSE, TRUE,
                 MkObj("seq", d, FALSE, ZeroSummary, FALSE, <<>>, FALSE, <<>>)) :
            d \in LoadLists}
    \cup {MkFile("html", TRUE, TRUE,
                 [Report(d, <<>>, <<>>) EXCEPT !.summary = ZeroSummary]) :
            d \in LoadLists}
    \cup {MkFile("json", FALSE, TRUE,
                 MkObj("notseq", <<>>, FALSE, ZeroSummary, FALSE, <<>>, FALSE, <<>>))}

NextLoad ==
    \/ \E file \in LoadFiles : nImports = 0 /\ ImportStart(file)
    \/ ImportFinish

LoadSpec == Init /\ [][NextLoad]_vars

----------------------------------------------------------------------------
(* The Dashboard component *)

\* hiddenCountries.includes(c)
Includes(hidden, c) == \E i \in 1..Len(hidden) : hidden[i] = c

\* visibleData: details.filter(d => !hiddenCountries.includes(d.country))
VisibleData(details, hidden) ==
    SelectSeq(details, LAMBDA d : ~Includes(hidden, d.country))

\* a slip the summary could make: the stored summary shown whatever is hidden
DashSummaryRaw(data, hidden) ==
    IF data.hasSummary THEN data.summary ELSE ZeroSummary

\* summary: the stored summary while nothing is hidden, else the totals of
\* the visible records
DashSummary(data, hidden) ==
    LET rawSummary == IF data.hasSummary THEN data.summary ELSE ZeroSummary
        visibleData == VisibleData(data.details, hidden)
    IN  IF Len(hidden) = 0 THEN rawSummary
        ELSE SummaryOf(SumCostOrZero(visibleData), SumRevenueOrZero(visibleData))

\* visibleBadCountries: badCountries.filter(c => !hiddenCountries.includes(c))
VisibleBadCountries(data, hidden) ==
    SelectSeq(IF data.hasBad THEN data.badCountries ELSE <<>>,
              LAMBDA c : ~Includes(hidden, c))

\* the updater of toggleVisibility(country), applied to prev
ToggleVisibility(prev, country) ==
    IF Includes(prev, country)
    THEN SelectSeq(prev, LAMBDA c : c # country)
    ELSE Append(prev, country)

\* a slip the hide button could make: the visible records handed to the
\* onDataUpdate prop (setResult of App) as the new details
HideRowWritesBack(i) ==
    LET visibleData == VisibleData(result.details, hiddenCountries)
        next == ToggleVisibility(hiddenCountries, visibleData[i].country)
    IN  /\ DashboardShown(appState, result)
        /\ i \in 1..Len(visibleData)
        /\ hiddenCountries' = next
        /\ result' = [result EXCEPT !.details = VisibleData(result.details, next)]
        /\ alertMsg' = ""
        /\ imp' = Frame(imp)
        /\ UNCHANGED <<appState, propellerFile, kadamFile, errorMsg, history, storage,
                       pending, nextId, resultRef, nImports, download>>

\* the hide button of row i of the table, which lists visibleData
HideRow(i) ==
    LET visibleData == VisibleData(result.details, hiddenCountries)
    IN  /\ DashboardShown(appState, result)
        /\ i \in 1..Len(visibleData)
        /\ hiddenCountries' = ToggleVisibility(hiddenCountries, visibleData[i].country)
        /\ alertMsg' = ""
        /\ imp' = Frame(imp)
        /\ UNCHANGED <<appState, propellerFile, kadamFile, result, errorMsg, history,
                       storage, pending, nextId, resultRef, nImports, download>>

\* chip j of the hidden-countries banner
UnhideChip(j) ==
    /\ DashboardShown(appState, result)
    /\ j \in 1..Len(hiddenCountries)
    /\ hiddenCountries' = ToggleVisibility(hiddenCountries, hiddenCountries[j])
    /\ alertMsg' = ""
    /\ imp' = Frame(imp)
    /\ UNCHANGED <<appState, propellerFile, kadamFile, result, errorMsg, history,
                   storage, pending, nextId, resultRef, nImports, download>>

\* "Show All" of the banner, rendered while something is hidden
ShowAll ==
    /\ DashboardShown(appState, result)
    /\ Len(hiddenCountries) > 0
    /\ hiddenCountries' = <<>>
    /\ alertMsg' = ""
    /\ imp' = Frame(imp)
    /\ UNCHANGED <<appState, propellerFile, kadamFile, result, errorMsg, history,
                   storage, pending, nextId, resultRef, nImports, download>>

\* Strings whose characters the import reads are sequences of one-character
\* strings.  s holds the two characters "};" next to each other
HasTerminator(s) == \E i \in 1..(Len(s) - 1) : s[i] = "}" /\ s[i + 1] = ";"

\* the free-text strings JSON.stringify writes out of an object: the
\* countries, the bad countries and the recommendations (a quote or a
\* backslash is escaped, a brace or a semicolon is not)
StringsOf(x) ==
    {x.details[i].country : i \in 1..Len(x.details)}
    \cup {x.badCountries[i] : i \in 1..Len(x.badCountries)}
    \cup {x.recommendations[i] : i \in 1..Len(x.recommendations)}

\* the object literal handleDownloadHtml serialises: data?.details || [], and
\* so on; generatedAt plays no part in the import
HtmlPayload(data) ==
    MkObj(IF data.dk = "absent" THEN "seq" ELSE data.dk,
          IF data.dk = "absent" THEN <<>> ELSE data.details,
          TRUE, IF data.hasSummary THEN data.summary ELSE ZeroSummary,
          TRUE, IF data.hasBad THEN data.badCountries ELSE <<>>,
          TRUE, IF data.hasRec THEN data.recommendations ELSE <<>>)

\* The file of handleDownloadHtml as handleImportFile reads it.  The text
\* holds "const DATA = " + JSON + ";" and /const DATA = ({.*?});/s is lazy:
\* its group ends at the first "};" after the marker.  JSON.stringify without
\* indentation writes no "};" outside a string, so the group is the whole
\* JSON unless a string holds "};", and then it ends inside that string and
\* JSON.parse throws.
ExportHtml(data) ==
    LET payload == HtmlPayload(data)
    IN  MkFile("html", TRUE, \A s \in StringsOf(payload) : ~HasTerminator(s),
               JsonObj(payload))

\* a slip the JSON export could make: the two advisory lists left out
ExportJsonNoLists(data) ==
    MkFile("json", FALSE, TRUE,
           JsonObj([data EXCEPT !.hasBad = FALSE, !.badCountries = <<>>,
                                !.hasRec = FALSE, !.recommendations = <<>>]))

\* the file of handleDownloadJson: JSON.stringify(data, null, 2)
ExportJson(data) == MkFile("json", FALSE, TRUE, JsonObj(data))

\* "Download HTML" of the Dashboard
DownloadHtml ==
    /\ DashboardShown(appState, result)
    /\ download' = ExportHtml(result)
    /\ alertMsg' = ""
    /\ imp' = Frame(imp)
    /\ UNCHANGED <<appState, propellerFile, kadamFile, result, errorMsg, history,
                   storage, pending, nextId, resultRef, nImports, hiddenCountries>>

\* "Download JSON" of the Dashboard
DownloadJson ==
    /\ DashboardShown(appState, result)
    /\ download' = ExportJson(result)
    /\ alertMsg' = ""
    /\ imp' = Frame(imp)
    /\ UNCHANGED <<appState, propellerFile, kadamFile, result, errorMsg, history,
                   storage, pending, nextId, resultRef, nImports, hiddenCountries>>

\* The App with analysis 1 just completed with report R: the Dashboard shows
\* R and the history holds it.
Analysed(R) ==
    /\ appState = "RESULTS"
    /\ propellerFile = TRUE
    /\ kadamFile = TRUE
    /\ result = R
    /\ errorMsg = ""
    /\ history = <<HistoryItem(1, R)>>
    /\ storage = Persist(<<HistoryItem(1, R)>>)
    /\ pending = {}
    /\ imp = IdleImport
    /\ alertMsg = ""
    /\ resultRef = 1
    /\ nextId = 2
    /\ nImports = 0
    /\ hiddenCountries = <<>>
    /\ download = NoFile

----------------------------------------------------------------------------
(* Export and re-import of a report *)

\* the countries of the exported reports, one of them with "};" in its name
ExportCountries == {<<"I", "n">>, <<"X", "}", ";">>}

ExportRecords ==
    {Rec(c, Num(1), Rat(3, 2)) : c \in ExportCountries}
    \cup {Rec(<<"I", "n">>, Rat(1, 2), Zero)}

\* details lists whose countries are pairwise distinct
ExportLists ==
    {d \in UNION {SeqsOf(ExportRecords, n) : n \in 0..MaxDetails} :
        \A i, j \in 1..Len(d) : d[i].country = d[j].country => i = j}

\* recommendation lists: none, a plain one, and one whose second text holds
\* "};" (as in "use {geo};")
ExportRecommendations ==
    {<<>>, <<<<"o", "k">>>>, <<<<"o", "k">>, <<"{", "g", "}", ";">>>>}

ExportReports ==
    {Report(d, bad, rec) : d \in ExportLists, bad \in {<<>>, <<<<"I", "n">>>>},
                           rec \in ExportRecommendations}

InitExport == \E R \in ExportReports : Analysed(R)

NextExport ==
    \/ DownloadHtml
    \/ DownloadJson
    \/ ResetApp
    \/ nImports = 0 /\ download # NoFile /\ ImportStart(download)
    \/ ImportFinish

ExportSpec == InitExport /\ [][NextExport]_vars

----------------------------------------------------------------------------
(* The Dashboard over one report: hiding and showing countries *)

ViewRecords ==
    {Rec("India", Num(1), Rat(3, 2)), Rec("Brazil", Num(1), Zero),
     Rec("Vietnam", Rat(1, 2), Rat(1, 2))}

ViewLists == UNION {SeqsOf(ViewRecords, n) : n \in 0..(MaxDetails + 1)}

\* Brazil is flagged, and so is Peru, which has no record
ViewReports == {Report(d, <<"Brazil", "Peru">>, <<"Block Brazil">>) : d \in ViewLists}

InitView == \E R \in ViewReports : Analysed(R)

NextView ==
    \/ \E i \in 1..Len(result.details) : HideRow(i)
    \/ \E j \in 1..Len(hiddenCountries) : UnhideChip(j)
    \/ ShowAll

ViewSpec == InitView /\ [][NextView]_vars

----------------------------------------------------------------------------
(* Properties *)

\* the sum of a sequence of numbers, left to right from 0
RECURSIVE TotalOf(_)
TotalOf(xs) == IF xs = <<>> THEN Zero ELSE JsAdd(TotalOf(SubSeq(xs, 1, Len(xs) - 1)), xs[Len(xs)])

CostsOf(d) == [i \in 1..Len(d) |-> d[i].cost]
RevenuesOf(d) == [i \in 1..Len(d) |-> d[i].revenue]

\* the zero-guarded ROI of a profit over a cost
GuardedRoi(profit, cost) == IF JsGt(cost, Zero) THEN JsPct(profit, cost) ELSE Zero

\* sm is the aggregate of the details d
IsAggregateOf(sm, d) ==
    LET tc == TotalOf(CostsOf(d))
        tr == TotalOf(RevenuesOf(d))
    IN  /\ sm.totalCost = tc
        /\ sm.totalRevenue = tr
        /\ sm.netProfit = JsSub(tr, tc)
        /\ sm.totalRoi = GuardedRoi(JsSub(tr, tc), tc)

\* the derived fields of r are those of its cost and revenue
IsConsistentRecord(r) ==
    LET profit == JsSub(r.revenue, r.cost)
    IN  /\ r.profit = profit
        /\ r.roi = GuardedRoi(profit, r.cost)
        /\ r.status = IF JsGt(profit, Zero) THEN "PROFITABLE"
                      ELSE IF JsLt(profit, Rat(-1, 2)) THEN "LOSS"
                      ELSE "BREAK_EVEN"

\* the import handler has just returned from its merge branch
JustMerged == imp.pc = "done" /\ alertMsg = MsgMerged

\* C1: whenever a canonical result exists, it has details and a summary, and
\* the summary is the aggregate of the details: totalCost the sum of cost,
\* totalRevenue the sum of revenue, netProfit their difference, totalRoi the
\* zero-guarded percentage.
C1_SummaryIsAggregate ==
    ~IsNull(result) =>
        /\ result.dk = "seq"
        /\ result.hasSummary
        /\ IsAggregateOf(result.summary, result.details)

\* C2: at most one analyzeArbitrageImages request is outstanding at any time.
C2_OneInferenceAtATime == Cardinality(pending) <= 1

\* the records of d with country c, in order
RECURSIVE OfCountry(_, _)
OfCountry(d, c) ==
    IF d = <<>> THEN <<>>
    ELSE IF Head(d).country = c THEN <<Head(d)>> \o OfCountry(Tail(d), c)
    ELSE OfCountry(Tail(d), c)

CountriesOf(d) == {d[i].country : i \in 1..Len(d)}

\* x + y1 + y2 + ..., left to right
RECURSIVE AddAll(_, _)
AddAll(x, ys) == IF ys = <<>> THEN x ELSE AddAll(JsAdd(x, Head(ys)), Tail(ys))

\* C3: after a merge, for every country that occurs in the base and in the
\* imported report, the merged result holds one record of that country, with
\* cost = base cost + imported cost and revenue = base revenue + imported
\* revenue (the base's record being its last of that country, the imported
\* records of that country added in file order), and with profit, roi and
\* status recomputed from these sums: profit = revenue - cost, roi =
\* (profit / cost) * 100 if cost > 0 else 0, status PROFITABLE if profit > 0,
\* LOSS if profit < -0.5, else BREAK_EVEN.
C3_MergeSumsAndRederives ==
    JustMerged =>
        \A c \in CountriesOf(imp.base.details) \cap CountriesOf(imp.file.data.details) :
            LET ofBase == OfCountry(imp.base.details, c)
                b == ofBase[Len(ofBase)]
                added == OfCountry(imp.file.data.details, c)
                merged == OfCountry(result.details, c)
            IN  /\ Len(merged) = 1
                /\ merged[1].cost = AddAll(b.cost, CostsOf(added))
                /\ merged[1].revenue = AddAll(b.revenue, RevenuesOf(added))
                /\ IsConsistentRecord(merged[1])

\* C3 witness: a merge into a country of the base whose summed profit is
\* -0.5, the value the LOSS threshold leaves BREAK_EVEN, and another whose
\* summed profit is below it
C3_Witness ==
    /\ JustMerged
    /\ \E c \in CountriesOf(imp.base.details) \cap CountriesOf(imp.file.data.details) :
          /\ Len(OfCountry(imp.base.details, c)) = 1
          /\ Len(OfCountry(imp.file.data.details, c)) = 1
          /\ OfCountry(result.details, c)[1].cost = Num(1)
          /\ OfCountry(result.details, c)[1].revenue = Rat(1, 2)
          /\ OfCountry(result.details, c)[1].profit = Rat(-1, 2)
          /\ OfCountry(result.details, c)[1].roi = Num(-50)
          /\ OfCountry(result.details, c)[1].status = "BREAK_EVEN"
          /\ OfCountry(imp.base.details, c)[1].status = "PROFITABLE"

\* C4: after a merge, the summary of the merged result is the aggregate of
\* the merged details, whatever the summaries of the base and of the imported
\* report were.
C4_MergedSummaryRecomputed ==
    JustMerged => IsAggregateOf(result.summary, result.details)

\* C4 witness: a merge in which neither the base's summary nor the imported
\* report's was the aggregate of its own details, and the merged summary is
\* neither of them
C4_Witness ==
    /\ JustMerged
    /\ ~IsAggregateOf(imp.base.summary, imp.base.details)
    /\ imp.file.data.hasSummary
    /\ ~IsAggregateOf(imp.file.data.summary, imp.file.data.details)
    /\ result.summary # imp.base.summary
    /\ result.summary # imp.file.data.summary

\* C5: every record of the canonical details has the profit, roi and status
\* of its own cost and revenue.
C5_RecordsConsistent ==
    (~IsNull(result) /\ result.dk = "seq") =>
        \A i \in 1..Len(result.details) : IsConsistentRecord(result.details[i])


HistoryIds(h) == {h[k].id : k \in 1..Len(h)}

\* the step ends an outstanding inference call without a history entry of
\* that call appearing (the page not being reloaded)
AnalysisFailedStep ==
    /\ ~Reload
    /\ \E p \in pending : p \notin pending' /\ p.id \notin HistoryIds(history')

\* the step completes an outstanding call on an inference error, a timeout
\* or a response that holds no parsable JSON span
AnalysisErrorStep ==
    \E p \in pending, resp \in Responses :
        /\ resp.kind \in {"xhr", "reject", "nospan", "badjson"}
        /\ AnalyzeSucceeds(p, resp) \/ AnalyzeFails(p, resp)

\* the step is the return of the import handler
ImportReturnStep == imp.pc = "reading" /\ imp'.pc = "done"

\* the causes of a failed import: JSON that does not parse, an .html file
\* without the marker, a payload without details, an exception in the merge
\* (a base result without a details array)
ImportFailureCause(base, file) ==
    \/ file.ext = "json" /\ ~file.valid
    \/ file.ext = "html" /\ file.marker /\ ~file.valid
    \/ file.ext = "html" /\ ~file.marker
    \/ file.data.dk = "absent"
    \/ ~IsNull(base) /\ base.dk # "seq"

C6_Step ==
    /\ (AnalysisFailedStep \/ AnalysisErrorStep) =>
          /\ appState' = "ERROR"
          /\ errorMsg' # ""
          /\ result' = result
          /\ history' = history
          /\ storage' = storage
    /\ (ImportReturnStep /\ (ImportFailureCause(imp.base, imp.file)
                             \/ alertMsg' \in {MsgInvalid, MsgCorrupted})) =>
          /\ alertMsg' \in {MsgInvalid, MsgCorrupted}
          /\ result' = result
          /\ history' = history
          /\ storage' = storage
          /\ appState' = appState

C7_NoDetailsRejected ==
    /\ ~IsNull(result) => result.dk = "seq"
    /\ \A k \in 1..Len(history) : history[k].result.dk = "seq"
    /\ \A k \in 1..Len(storage) : storage[k].result.dk = "seq"

\* C8: a call whose response text is empty or absent, holds no span from '{'
\* to '}', or holds a span that is not JSON, ends in ERROR with the result and
\* the history as they were.
C8_NoSpanFails ==
    [][\A p \in pending, resp \in Responses :
          (/\ resp.kind \in {"notext", "nospan", "badjson"}
           /\ AnalyzeSucceeds(p, resp) \/ AnalyzeFails(p, resp))
          => (appState' = "ERROR" /\ result' = result /\ history' = history)]_vars

\* C9: an entry of the history stays in the history and in the persisted
\* history across every step other than the delete of its id.
C9_EntriesStayUntilDeleted ==
    [][\A k \in 1..Len(history) :
          \/ history[k].id \in HistoryIds(history') \cap HistoryIds(storage')
          \/ \E i \in 1..Len(history) :
                history[i].id = history[k].id /\ DeleteHistoryItem(i)]_vars

\* C10: across every step, an entry that stays in the history (and in the
\* persisted history) keeps the result it had.
C10_EntriesFrozen ==
    [][/\ \A k \in 1..Len(history), j \in 1..Len(history') :
            history[k].id = history'[j].id => history'[j].result = history[k].result
       /\ \A k \in 1..Len(storage), j \in 1..Len(storage') :
            storage[k].id = storage'[j].id => storage'[j].result = storage[k].result]_vars

\* C10 witness: the older of two entries was loaded as the canonical result (a
\* completed analysis shows the newer one), a report has just been merged
\* into it, and the entry still holds what the merge started from
C10_Witness ==
    /\ JustMerged
    /\ imp.ref # 0
    /\ result # imp.base
    /\ result.details # imp.base.details
    /\ Len(history) = 2
    /\ \E k \in {2} :
          /\ history[k].id = imp.ref
          /\ history[k].result = imp.base
          /\ storage[k] = history[k]

\* the records of d as a set: the details keyed by country, order put aside
RecordSet(d) == {d[i] : i \in 1..Len(d)}

\* C11: for results A, B, C with unique countries each, importing B onto A and
\* then C onto the outcome gives the same records per country (cost, revenue,
\* profit, roi, status) and the same summary as importing onto A the outcome
\* of importing C onto B.
C11_MergeAssociative ==
    JustMerged =>
        \A A \in ChainReports, B \in ChainReports :
            imp.base = MergedResult(A, WithDefaults(B)) =>
                LET inner == MergedResult(B, WithDefaults(imp.file.data))
                    right == MergedResult(A, WithDefaults(inner))
                IN  /\ RecordSet(result.details) = RecordSet(right.details)
                    /\ result.summary = right.summary

\* C12: for results A and B, importing B onto the base A and importing A onto
\* the base B give the same records per country (cost, revenue, profit, roi,
\* status) and the same summary.
C12_MergeCommutative ==
    JustMerged =>
        LET swapped == MergedResult(WithDefaults(imp.file.data), WithDefaults(imp.base))
        IN  /\ RecordSet(result.details) = RecordSet(swapped.details)
            /\ result.summary = swapped.summary

\* the import handler returns without one of its two failure alerts
ImportSucceedsStep == ImportReturnStep /\ alertMsg' \notin {MsgInvalid, MsgCorrupted}

\* C13: when an import succeeds while there is no canonical result, the
\* imported report becomes the canonical result with its details and the
\* badCountries, recommendations and summary it supplied, and the app moves to
\* RESULTS.
C13_LoadedUnchanged ==
    [][(ImportSucceedsStep /\ IsNull(result)) =>
          /\ appState' = "RESULTS"
          /\ result'.dk = imp.file.data.dk
          /\ result'.details = imp.file.data.details
          /\ imp.file.data.hasBad => result'.badCountries = imp.file.data.badCountries
          /\ imp.file.data.hasRec =>
                result'.recommendations = imp.file.data.recommendations
          /\ imp.file.data.hasSummary => result'.summary = imp.file.data.summary]_vars

\* the elements of xs, each once, in the order of their first appearance
RECURSIVE FirstSeen(_)
FirstSeen(xs) ==
    IF xs = <<>> THEN <<>>
    ELSE LET init == FirstSeen(SubSeq(xs, 1, Len(xs) - 1))
             last == xs[Len(xs)]
         IN  IF \E i \in 1..Len(init) : init[i] = last THEN init ELSE Append(init, last)

CountrySeq(d) == [i \in 1..Len(d) |-> d[i].country]

\* C14: the details of a merged result list the countries of the base first,
\* in the base's order, then the countries that occur only in the imported
\* report, in the imported report's order; a country of both stays at its
\* base position.
C14_MergedOrder ==
    JustMerged =>
        LET inBase == CountriesOf(imp.base.details)
            onlyImported == SelectSeq(CountrySeq(imp.file.data.details),
                                      LAMBDA c : c \notin inBase)
        IN  CountrySeq(result.details)
              = FirstSeen(CountrySeq(imp.base.details)) \o FirstSeen(onlyImported)

\* C14 witness: the imported report lists a new country before a country of
\* the base; the base country stays first and the new one follows
C14_Witness ==
    /\ JustMerged
    /\ CountrySeq(imp.base.details) = <<"Brazil">>
    /\ CountrySeq(imp.file.data.details) = <<"India", "Brazil">>
    /\ CountrySeq(result.details) = <<"Brazil", "India">>
    /\ result.details[1] # imp.base.details[1]

\* the list a payload supplies, or the empty list
ListOr(has, xs) == IF has THEN xs ELSE <<>>

\* C15: after a merge, badCountries holds the elements of the base's list and
\* of the imported list, each once, in the order of their first appearance in
\* base-then-imported; and likewise recommendations.
C15_ListsAreUnions ==
    JustMerged =>
        /\ result.badCountries
             = FirstSeen(imp.base.badCountries
                         \o ListOr(imp.file.data.hasBad, imp.file.data.badCountries))
        /\ result.recommendations
             = FirstSeen(imp.base.recommendations
                         \o ListOr(imp.file.data.hasRec, imp.file.data.recommendations))

\* C15 witness: a base that lists a country twice, an imported report with the
\* same countries in another order and a recommendation of its own
C15_Witness ==
    /\ JustMerged
    /\ imp.base.badCountries = <<"Brazil", "India", "Brazil">>
    /\ imp.file.data.badCountries = <<"India", "Brazil">>
    /\ result.badCountries = <<"Brazil", "India">>
    /\ imp.base.recommendations = <<>>
    /\ result.recommendations = <<"Block India">>

\* C16: the countries of the details of a canonical result are pairwise
\* distinct.
C16_CountriesUnique ==
    (~IsNull(result) /\ result.dk = "seq") =>
        \A i, j \in 1..Len(result.details) :
            i # j => result.details[i].country # result.details[j].country

\* the import handler has returned without a failure alert
ImportSucceeded == imp.pc = "done" /\ alertMsg \notin {MsgInvalid, MsgCorrupted}

\* an amount with a missing one counted as 0
CountedAs0(x) == IF IsNum(x) THEN x ELSE Zero

\* C17: when a report with details and no summary is loaded, the summary of
\* the result is synthesized from the details: totalCost the sum of cost,
\* totalRevenue the sum of revenue (a missing amount counted as 0), netProfit
\* their difference, totalRoi the zero-guarded percentage; it is the zero
\* summary only if both sums are zero.
C17_SummarySynthesized ==
    (ImportSucceeded /\ IsNull(imp.base) /\ ~imp.file.data.hasSummary) =>
        LET d == imp.file.data.details
            tc == TotalOf([i \in 1..Len(d) |-> CountedAs0(d[i].cost)])
            tr == TotalOf([i \in 1..Len(d) |-> CountedAs0(d[i].revenue)])
        IN  /\ result.hasSummary
            /\ result.summary.totalCost = tc
            /\ result.summary.totalRevenue = tr
            /\ result.summary.netProfit = JsSub(tr, tc)
            /\ result.summary.totalRoi = GuardedRoi(JsSub(tr, tc), tc)
            /\ result.summary = ZeroSummary => (tc = Zero /\ tr = Zero)

\* C17 witness: a loaded report without summary whose one record has cost 1
\* and revenue 1.5; the summary reads 1, 1.5, 0.5 and 50 percent
C17_Witness ==
    /\ ImportSucceeded
    /\ IsNull(imp.base)
    /\ ~imp.file.data.hasSummary
    /\ imp.file.data.details = <<Rec("India", Num(1), Rat(3, 2))>>
    /\ result.summary = [totalCost |-> Num(1), totalRevenue |-> Rat(3, 2),
                         netProfit |-> Rat(1, 2), totalRoi |-> Num(50)]
    /\ appState = "RESULTS"

\* C18: every canonical result has its badCountries and its recommendations,
\* and no import onto a canonical result fails in the merge for want of one
\* of these lists.
C18_ListsPresent ==
    /\ ~IsNull(result) => (result.hasBad /\ result.hasRec)
    /\ (imp.pc = "done" /\ ~IsNull(imp.base) /\ alertMsg = MsgCorrupted) =>
          (imp.base.hasBad /\ imp.base.hasRec)

\* C19: after a report is loaded or merged, every record of the result has a
\* number for its cost and for its revenue, and totalCost and totalRevenue
\* are the sums over the records with a missing amount counted as 0.
C19_MissingAmountsAreZero ==
    (ImportSucceeded /\ result.dk = "seq") =>
        LET d == result.details
        IN  /\ \A i \in 1..Len(d) : IsNum(d[i].cost) /\ IsNum(d[i].revenue)
            /\ result.summary.totalCost
                 = TotalOf([i \in 1..Len(d) |-> CountedAs0(d[i].cost)])
            /\ result.summary.totalRevenue
                 = TotalOf([i \in 1..Len(d) |-> CountedAs0(d[i].revenue)])

\* a country that is empty once trimmed, among the countries of the inputs
IsBlank(c) == c \in {"", " "}

\* C20: no record of the details of a canonical result has a country that is
\* empty once trimmed.
C20_NoBlankCountry ==
    (~IsNull(result) /\ result.dk = "seq") =>
        \A i \in 1..Len(result.details) : ~IsBlank(result.details[i].country)

\* the import handler has just returned, having read with no base result a
\* file of the given extension that an export of this session wrote
ReimportedAlone(ext) ==
    /\ imp.pc = "done"
    /\ IsNull(imp.base)
    /\ imp.file = download
    /\ imp.file.ext = ext

\* the report the session started with: analysis 1's, as the history holds it
Exported == history[1].result

\* C21: a report exported with handleDownloadHtml and imported with no base
\* result is shown as the canonical result, with the details, badCountries,
\* recommendations and summary of the exported report, also when one of its
\* strings holds "};".
C21_HtmlRoundTrip ==
    ReimportedAlone("html") =>
        /\ appState = "RESULTS"
        /\ ~IsNull(result)
        /\ result.details = Exported.details
        /\ result.badCountries = Exported.badCountries
        /\ result.recommendations = Exported.recommendations
        /\ result.summary = Exported.summary

\* C22: a report exported with handleDownloadJson and imported with no base
\* result is shown as the canonical result and equals the exported report in
\* every field.
C22_JsonRoundTrip ==
    ReimportedAlone("json") =>
        /\ appState = "RESULTS"
        /\ result = Exported

\* C22 witness: a JSON export of a report with two records, a bad country
\* and two recommendations, one of them holding "};", read back after New
C22_Witness ==
    /\ ReimportedAlone("json")
    /\ Len(Exported.details) = 2
    /\ Len(Exported.badCountries) = 1
    /\ Len(Exported.recommendations) = 2
    /\ \E s \in StringsOf(Exported) : HasTerminator(s)
    /\ result.summary.totalRoi = Num(50)

\* the hidden set
HiddenSet == {hiddenCountries[i] : i \in 1..Len(hiddenCountries)}

\* the records of d whose country is not in H, in the order of d
RECURSIVE RecordsOutside(_, _)
RecordsOutside(d, H) ==
    IF d = <<>> THEN <<>>
    ELSE (IF Head(d).country \in H THEN <<>> ELSE <<Head(d)>>)
         \o RecordsOutside(Tail(d), H)

\* the names of the list b that are not in H, in the order of b
RECURSIVE NamesOutside(_, _)
NamesOutside(b, H) ==
    IF b = <<>> THEN <<>>
    ELSE (IF Head(b) \in H THEN <<>> ELSE <<Head(b)>>) \o NamesOutside(Tail(b), H)

\* C23: in the Dashboard, the visible records are exactly the records of the
\* details whose country is not hidden, in their original order; when at
\* least one country is hidden the on-screen summary is the aggregate of those
\* records; and the visible bad countries are badCountries without the hidden
\* names.
C23_VisibilityFilter ==
    DashboardShown(appState, result) =>
        LET visible == RecordsOutside(result.details, HiddenSet)
        IN  /\ VisibleData(result.details, hiddenCountries) = visible
            /\ Len(hiddenCountries) > 0 =>
                   IsAggregateOf(DashSummary(result, hiddenCountries), visible)
            /\ VisibleBadCountries(result, hiddenCountries)
                   = NamesOutside(result.badCountries, HiddenSet)

\* C23 witness: Brazil hidden out of India, Brazil, Vietnam: two records stay
\* visible in their order, the on-screen summary (cost 1.5, revenue 2) is not
\* the stored one, and of the bad countries Peru is left
C23_Witness ==
    /\ DashboardShown(appState, result)
    /\ hiddenCountries = <<"Brazil">>
    /\ CountrySeq(result.details) = <<"India", "Brazil", "Vietnam">>
    /\ CountrySeq(VisibleData(result.details, hiddenCountries)) = <<"India", "Vietnam">>
    /\ DashSummary(result, hiddenCountries).totalCost = Rat(3, 2)
    /\ DashSummary(result, hiddenCountries).totalRevenue = Num(2)
    /\ DashSummary(result, hiddenCountries) # result.summary
    /\ VisibleBadCountries(result, hiddenCountries) = <<"Peru">>

\* C24: a step of the Dashboard that changes the hidden set (hide, un-hide,
\* show all) leaves the canonical result, the history, its persisted copy and
\* the app state as they were.
C24_ToggleChangesOnlyHidden ==
    [][(DashboardShown(appState, result) /\ hiddenCountries' # hiddenCountries)
         => /\ result' = result
            /\ history' = history
            /\ storage' = storage
            /\ appState' = appState]_vars

\* C24 witness: after hiding two countries and showing one again, one record
\* of the canonical details is filtered out and the canonical result is still
\* the analysed one
C24_Witness ==
    /\ DashboardShown(appState, result)
    /\ hiddenCountries = <<"India">>
    /\ Len(result.details) = 3
    /\ Len(VisibleData(result.details, hiddenCountries)) = 1
    /\ result = history[1].result
    /\ storage = Persist(history)

\* C25: an error is no dead end and costs no history.  In every state with
\* appState = ERROR "Try Again" can be clicked and leads to UPLOAD; in every
\* UPLOAD state each of the two screenshots can be selected, which keeps the
\* other and stays in UPLOAD; in every UPLOAD state with both screenshots
\* Analyze can be clicked and starts one more inference call (as long as the
\* model's cap on the number of calls, MaxAnalyses, is not used up).  And no
\* failure of an inference call changes the history or its persisted copy.
C25_ErrorIsNoDeadEnd ==
    /\ appState = "ERROR" =>
           ENABLED (ResetApp /\ appState' = "UPLOAD")
    /\ appState = "UPLOAD" =>
           /\ ENABLED (SelectPropeller /\ appState' = "UPLOAD" /\ propellerFile'
                          /\ kadamFile' = kadamFile)
           /\ ENABLED (SelectKadam /\ appState' = "UPLOAD" /\ kadamFile'
                          /\ propellerFile' = propellerFile)
    /\ (appState = "UPLOAD" /\ propellerFile /\ kadamFile /\ nextId <= MaxAnalyses) =>
           ENABLED (AnalyzeStart /\ appState' = "ANALYZING"
                       /\ Cardinality(pending') = Cardinality(pending) + 1)
    /\ ~ENABLED ((\E p \in pending, resp \in Responses : AnalyzeFails(p, resp))
                    /\ (history' # history \/ storage' # storage))

\* C25 witness: the ERROR view after a failed connection, the history and
\* its persisted copy as they were, and a further call within the cap
C25_Witness ==
    /\ appState = "ERROR"
    /\ errorMsg = MsgConnection
    /\ history = storage
    /\ pending = {}
    /\ nextId <= MaxAnalyses

\* C26: a deleted history entry never reappears.  Ids are given to calls and
\* a call completes once, so an entry that reappears is an id that enters the
\* history, or its persisted copy, in a step other than the completion of the
\* call with that id: every id a step adds to either is the id of a call that
\* completes in that step.
C26_DeletedStaysDeleted ==
    [][\A id \in (HistoryIds(history') \ HistoryIds(history))
                     \cup (HistoryIds(storage') \ HistoryIds(storage)) :
           \E p \in pending : p.id = id /\ p \notin pending']_vars

\* the app is in the ANALYZING state that was entered for the call p: no
\* other state can be left for ANALYZING but by starting a later call
StillAnalyzing(p) == appState = "ANALYZING" /\ p.id = nextId - 1

\* C27: the completion of an inference call, success or failure, changes the
\* canonical result and the app state only if the app is still in the
\* ANALYZING state entered for that call.
C27_LateCompletionIgnored ==
    [][\A p \in pending :
           (~Reload /\ p \notin pending' /\ ~StillAnalyzing(p))
               => (result' = result /\ appState' = appState)]_vars

\* C28: on the upload, history and error screens there is no base result,
\* and so an import that succeeds is never a merge that leaves the app on
\* one of these screens: it loads the file and shows it in RESULTS.
C28_NoBaseOutsideResults ==
    /\ appState \in {"UPLOAD", "HISTORY", "ERROR"} => IsNull(result)
    /\ JustMerged => appState \notin {"UPLOAD", "HISTORY", "ERROR"}

----------------------------------------------------------------------------
(* The App with the Dashboard's own buttons *)

NextDash ==
    \/ Next
    \/ \E i \in 1..Len(result.details) : HideRow(i)
    \/ \E j \in 1..Len(hiddenCountries) : UnhideChip(j)
    \/ ShowAll

DashSpec == Init /\ [][NextDash]_vars

\* C29: while the Dashboard is mounted, every hidden name is the country of
\* a record of the current canonical details.
C29_HiddenAreCountries ==
    DashboardShown(appState, result) =>
        \A k \in 1..Len(hiddenCountries) :
            hiddenCountries[k] \in CountriesOf(result.details)

\* C30: after a merge, the totalCost of the merged summary is the sum of cost
\* over all records of the base plus the sum of cost over all records of the
\* imported report, and the totalRevenue likewise.
C30_MergeConservesTotals ==
    JustMerged =>
        /\ result.summary.totalCost
               = JsAdd(TotalOf(CostsOf(imp.base.details)),
                       TotalOf(CostsOf(imp.file.data.details)))
        /\ result.summary.totalRevenue
               = JsAdd(TotalOf(RevenuesOf(imp.base.details)),
                       TotalOf(RevenuesOf(imp.file.data.details)))

====
